---- MODULE Spec2Model ----
(***************************************************************************)
(* Document lifecycle of the PII audit backend: the Document collection    *)
(* (models/Document.js) with its TTL index, the request handlers of        *)
(* processController.js and documentController.js, the ledger client       *)
(* (services/blockchainService.js) and the AuditTrail contract.            *)
(*                                                                         *)
(* Every handler is an async function: each await is a point where other   *)
(* requests, the TTL monitor and other ledger transactions may run, so a   *)
(* handler is one action per await.                                        *)
(***************************************************************************)
EXTENDS Integers, Sequences, FiniteSets, Bags, TLC

\* ---------------------------------------------------------------- bounds
MaxDocs == 2
MaxUploads == 1
MaxTasks == 2
MaxTx == 3
MaxTicks == 2

\* ------------------------------------------------------------- universes
Users == {"u1", "u2"}
Bytes == {"b1", "b2"}
Entities == {"pii"}

\* wallet.address: the account of CONTRACT_OWNER_PRIVATE_KEY, which deploys
\* the contract and signs every transaction of the backend.
WalletAddress == "W"

\* req.user.address of each application user
UserAddress(u) == IF u = "u1" THEN "A" ELSE "B"

Addresses == {WalletAddress} \cup {UserAddress(u) : u \in Users}

\* the accounts that send transactions to the contract: its owner and another
Senders == {WalletAddress, UserAddress("u1")}

\* the zero address of an unset Solidity `address`
ZeroAddress == "0x0"

\* crypto.createHash('sha256').update(bytes).digest('hex')
Sha256(b) == IF b = "b1" THEN "h1" ELSE "h2"

Hashes == {Sha256(b) : b \in Bytes}

\* a field that is undefined / absent in the stored document
Undefined == -1

\* default: () => new Date(Date.now() + 5 * 60 * 1000)
GracePeriodMs == 5 * 60 * 1000

\* the clock advances in steps of one grace period
TickMs == GracePeriodMs

DocIds == 1..MaxDocs
MaxNow == TickMs * (MaxTicks + 1)

VARIABLES
    docs,             \* the Document collection: _id -> stored document
    nextId,           \* next _id handed out by Document.create
    now,              \* wall clock in ms (Date.now())
    owner,            \* AuditTrail.owner
    documentRecords,  \* AuditTrail.documentRecords
    accessHistory,    \* AuditTrail.accessHistory
    events,           \* the contract's event log, one entry per mined tx
    receipt,          \* outcome of the contract call a step made outside the backend
    tasks,            \* the bag of requests in flight (suspended at an await)
    response          \* the response a step sent to its client

vars == <<docs, nextId, now, owner, documentRecords, accessHistory, events,
          receipt, tasks, response>>
ledgerVars == <<owner, documentRecords, accessHistory, events>>
storeVars == <<docs, nextId>>

\* ------------------------------------------------------------ the ledger

\* the value of an unwritten mapping slot of documentRecords
EmptyDocumentLog == [fileHash |-> "", user |-> ZeroAddress, timestamp |-> 0]

\* block.timestamp (seconds) of the block a transaction is mined in
BlockTimestamp == now \div 1000

\* a contract whose writing functions carry no modifier
OnlyOwner_Anyone(sender) == TRUE

\* modifier onlyOwner
OnlyOwner(sender) == sender = owner

\* logNewDocument without its duplicate check
RequireNotLogged_Missing(h) == TRUE

\* require(documentRecords[_fileHash].timestamp == 0, ...)
RequireNotLogged(h) == documentRecords[h].timestamp = 0

\* logAccess without its existence check
RequireLogged_Missing(h) == TRUE

\* require(documentRecords[_fileHash].timestamp != 0, ...)
RequireLogged(h) == documentRecords[h].timestamp # 0

\* a logNewDocument that accepts a hash it has already recorded
LogNewDocumentSucceeds_Again(sender, h) == OnlyOwner(sender)

\* logNewDocument does not revert
LogNewDocumentSucceeds(sender, h) == OnlyOwner(sender) /\ RequireNotLogged(h)

\* logAccess does not revert
LogAccessSucceeds(sender, h) == OnlyOwner(sender) /\ RequireLogged(h)

\* a logNewDocument that leaves the fileHash member of the struct unset
LogNewDocument_HashUnset(h, u) ==
    /\ documentRecords' = [documentRecords EXCEPT
           ![h] = [fileHash |-> "", user |-> u, timestamp |-> BlockTimestamp]]
    /\ events' = Append(events, [name |-> "DocumentCreated", fileHash |-> h, who |-> u])
    /\ UNCHANGED <<owner, accessHistory>>

\* the state change of a mined, non-reverted logNewDocument(_fileHash, _user)
LogNewDocument(h, u) ==
    /\ documentRecords' = [documentRecords EXCEPT
           ![h] = [fileHash |-> h, user |-> u, timestamp |-> BlockTimestamp]]
    /\ events' = Append(events, [name |-> "DocumentCreated", fileHash |-> h, who |-> u])
    /\ UNCHANGED <<owner, accessHistory>>

AccessLogEntry(a) == [accessor |-> a, timestamp |-> BlockTimestamp]

\* an access log that puts the new entry first
PushAccess_Front(hist, a) == <<AccessLogEntry(a)>> \o hist

\* accessHistory[_fileHash].push(...)
PushAccess(hist, a) == Append(hist, AccessLogEntry(a))

\* the state change of a mined, non-reverted logAccess(_fileHash, _accessor)
LogAccess(h, a) ==
    /\ accessHistory' = [accessHistory EXCEPT ![h] = PushAccess(@, a)]
    /\ events' = Append(events, [name |-> "DocumentAccessed", fileHash |-> h, who |-> a])
    /\ UNCHANGED <<owner, documentRecords>>

\* getDocumentRecord(_fileHash)
GetDocumentRecord(h) == documentRecords[h]

\* a history getter that returns the latest access only
GetAccessHistory_Latest(h) ==
    IF accessHistory[h] = <<>> THEN <<>>
    ELSE <<accessHistory[h][Len(accessHistory[h])]>>

\* getAccessHistory(_fileHash)
GetAccessHistory(h) == accessHistory[h]

\* tx.hash of the next mined transaction
NextTxHash == Len(events) + 1

\* --------------------------------------------------- the Document store

\* a schema whose expireAt has no default
NewDocument_NoExpiry(u, b) ==
    [ originalFile |-> b,
      originalFileHash |-> Sha256(b),
      user |-> u,
      detectedPii |-> "none",
      accessLogs |-> <<>>,
      isSaved |-> FALSE,
      blockchainTransactionId |-> Undefined,
      expireAt |-> Undefined,
      createdAt |-> now ]

\* Document.create({... originalFile, originalFileHash, user}) with the
\* schema defaults of isSaved, expireAt and detectedPii, and the createdAt of
\* timestamps: true
NewDocument(u, b) ==
    [ originalFile |-> b,
      originalFileHash |-> Sha256(b),
      user |-> u,
      detectedPii |-> "none",
      accessLogs |-> <<>>,
      isSaved |-> FALSE,
      blockchainTransactionId |-> Undefined,
      expireAt |-> now + GracePeriodMs,
      createdAt |-> now ]

\* the value of `document` when findOne resolves to null
NoDocument == [missing |-> TRUE]

\* the document with this _id is in the collection
Exists(id) == id \in DocIds /\ docs[id] # NoDocument

\* Document.findOne({ _id: id, user: u })
FindOne(id, u) ==
    IF Exists(id) /\ docs[id].user = u THEN docs[id] ELSE NoDocument

\* a reaper that does not skip documents without expireAt
Expired_AnyDocument(id) == Exists(id) /\ docs[id].expireAt <= now

\* the TTL index { expireAt: 1 }, expireAfterSeconds: 0 : a document is
\* reaped once its expireAt is present and has been reached
Expired(id) ==
    /\ Exists(id)
    /\ docs[id].expireAt # Undefined
    /\ docs[id].expireAt <= now

\* ------------------------------------------------------------- requests

\* the locals of a handler and the fields of its response
IdleTask ==
    [ op |-> "none", pc |-> "idle", id |-> 0, user |-> "u1",
      fileHash |-> "", txId |-> Undefined, res |-> "none",
      onChainHash |-> "", currentHash |-> "", history |-> <<>>,
      writes |-> 0, reads |-> 0 ]

NoReceipt ==
    [fn |-> "none", sender |-> ZeroAddress, fileHash |-> "", status |-> "none",
     reason |-> "", record |-> EmptyDocumentLog, history |-> <<>>]

NoResponse == IdleTask

\* the server takes a new request while fewer than MaxTasks are in flight
Free == BagCardinality(tasks) < MaxTasks

InFlight == BagToSet(tasks)

\* the locals of handler op for document id and user u once findOne resolved to d
Loaded(op, id, u, d) ==
    [IdleTask EXCEPT !.op = op, !.id = id, !.user = u,
                     !.fileHash = IF d = NoDocument THEN "" ELSE d.originalFileHash]

\* res.json(...) or a thrown error: the request ends with outcome r
Respond(task, r) == [task EXCEPT !.pc = "done", !.res = r]

\* a new request becomes task: suspended at its first await after findOne,
\* or finished at once with its response sent
Begin(task) ==
    IF task.pc = "done"
    THEN /\ tasks' = tasks
         /\ response' = task
    ELSE /\ tasks' = tasks (+) SetToBag({task})
         /\ response' = NoResponse

\* the request t goes on as task: suspended at its next await, or finished
\* with its response sent
Continue(t, task) ==
    IF task.pc = "done"
    THEN /\ tasks' = tasks (-) SetToBag({t})
         /\ response' = task
    ELSE /\ tasks' = (tasks (-) SetToBag({t})) (+) SetToBag({task})
         /\ response' = NoResponse

Init ==
    /\ docs = [i \in DocIds |-> NoDocument]
    /\ nextId = 1
    /\ now = TickMs
    /\ owner = WalletAddress
    /\ documentRecords = [h \in Hashes |-> EmptyDocumentLog]
    /\ accessHistory = [h \in Hashes |-> <<>>]
    /\ events = <<>>
    /\ receipt = NoReceipt
    /\ tasks = EmptyBag
    /\ response = NoResponse

\* uploadDocument: hashes the file and creates the document
UploadDocument(u, b) ==
    /\ nextId <= MaxDocs
    /\ docs' = [docs EXCEPT ![nextId] = NewDocument(u, b)]
    /\ nextId' = nextId + 1
    /\ response' = NoResponse
    /\ UNCHANGED <<now, ledgerVars, receipt, tasks>>

\* ---- saveAndLogDocument (POST /api/process/save/:id)

\* a save handler without the isSaved check
AlreadySaved_Unchecked(d) == FALSE

\* if (document.isSaved) -> 400 'Document has already been saved and logged.'
AlreadySaved(d) == d.isSaved

\* up to the first ledger call: findOne, the 404 and 400 checks
SaveStart(id, u) ==
    /\ Free
    /\ LET d == FindOne(id, u)
           task == Loaded("save", id, u, d)
       IN Begin(IF d = NoDocument THEN Respond(task, "NotFound")
                 ELSE IF AlreadySaved(d) THEN Respond(task, "AlreadyCommitted")
                 ELSE [task EXCEPT !.pc = "log"])
    /\ UNCHANGED <<storeVars, now, ledgerVars, receipt>>

\* the outcomes of submitting a transaction and awaiting tx.wait():
\*   ok      - mined and the receipt was received
\*   dropped - the provider failed before the transaction was mined
\*   lost    - mined, but waiting for the receipt failed
WriteOutcomes == {"ok", "dropped", "lost"}

\* the outcomes of a read-only contract call, and of the detection service
ReadOutcomes == {"ok", "fail"}

\* a ledger client that swallows the failure and resolves to undefined
AfterLedgerWrite_Swallowed(task, confirmed, txHash, next) ==
    [task EXCEPT !.pc = next, !.txId = IF confirmed THEN txHash ELSE Undefined]

\* a handler that leaves the duplicate and existence checks to the contract
\* and answers its rejection with the local validation error
AfterLedgerWrite_AsValidationError(task, confirmed, txHash, next) ==
    IF confirmed THEN [task EXCEPT !.pc = next, !.txId = txHash]
                 ELSE Respond(task, IF task.op = "save" THEN "AlreadyCommitted"
                                                        ELSE "NotFound")

\* a handler after `await logDocumentCreation(...)` / `await
\* logDocumentAccess(...)`: it goes on to pc next with the tx hash when the
\* transaction was confirmed; otherwise the catch block rethrows
\* Error('Blockchain transaction failed.') and the request ends
AfterLedgerWrite(task, confirmed, txHash, next) ==
    IF confirmed THEN [task EXCEPT !.pc = next, !.txId = txHash]
                 ELSE Respond(task, "LedgerWriteFailed")

\* logDocumentCreation(fileHash, userAddress): sends logNewDocument(fileHash,
\* wallet.address) and waits for the receipt
SaveLog(t, net) ==
    /\ t.op = "save" /\ t.pc = "log"
    /\ LET h == t.fileHash
           mined == net # "dropped" /\ LogNewDocumentSucceeds(WalletAddress, h)
           task == [t EXCEPT !.writes = @ + 1]
       IN /\ mined => Len(events) < MaxTx
          /\ IF mined THEN LogNewDocument(h, WalletAddress)
                      ELSE UNCHANGED ledgerVars
          /\ Continue(t, AfterLedgerWrite(task, mined /\ net = "ok", NextTxHash, "save"))
    /\ UNCHANGED <<storeVars, now, receipt>>

\* a commit that does not store the transaction hash
CommitFields_NoTxRef(d, txId) ==
    [d EXCEPT !.isSaved = TRUE, !.expireAt = Undefined]

\* a commit that leaves the deletion timer running
CommitFields_KeepsTimer(d, txId) ==
    [d EXCEPT !.isSaved = TRUE, !.blockchainTransactionId = txId]

\* document.isSaved = true; document.blockchainTransactionId = transactionId;
\* document.expireAt = undefined  -- the modified paths written by save()
CommitFields(d, txId) ==
    [d EXCEPT !.isSaved = TRUE,
              !.blockchainTransactionId = txId,
              !.expireAt = Undefined]

\* await document.save(): updates the modified paths of the stored document,
\* or rejects (DocumentNotFoundError) when it is no longer in the collection
SaveSave(t) ==
    /\ t.op = "save" /\ t.pc = "save"
    /\ LET id == t.id IN
       IF Exists(id)
       THEN /\ docs' = [docs EXCEPT ![id] = CommitFields(@, t.txId)]
            /\ Continue(t, Respond(t, "ok"))
       ELSE /\ docs' = docs
            /\ Continue(t, Respond(t, "SaveFailed"))
    /\ UNCHANGED <<nextId, now, ledgerVars, receipt>>

\* ---- verifyDocument (GET /api/process/verify/:id)

\* a check that forgets isSaved
NotFoundOrNotSaved_FoundOnly(d) == d = NoDocument

\* if (!document || !document.isSaved) -> 400 'Document not found or was not saved.'
NotFoundOrNotSaved(d) == d = NoDocument \/ ~d.isSaved

\* a verify that skips the local comparison
LocalMismatch_Skipped(currentHash, d) == FALSE

\* if (currentHash !== document.originalFileHash)
LocalMismatch(currentHash, d) == currentHash # d.originalFileHash

\* findOne, the 400 check, the local hash comparison
VerifyStart(id, u) ==
    /\ Free
    /\ LET d == FindOne(id, u)
           task == Loaded("verify", id, u, d)
       IN Begin(
           IF NotFoundOrNotSaved(d) THEN Respond(task, "NotFound")
           ELSE LET currentHash == Sha256(d.originalFile) IN
                IF LocalMismatch(currentHash, d)
                THEN Respond([task EXCEPT !.onChainHash = "N/A",
                                          !.currentHash = currentHash],
                             "LocalTamperDetected")
                ELSE [task EXCEPT !.pc = "chain", !.currentHash = currentHash])
    /\ UNCHANGED <<storeVars, now, ledgerVars, receipt>>

\* verifyDocumentIntegrity(fileHash): onChainHash === fileHash, and false
\* when the contract call throws
VerifyDocumentIntegrity(h, net) ==
    IF net = "ok" THEN GetDocumentRecord(h).fileHash = h ELSE FALSE

\* the response after verifyDocumentIntegrity resolved
VerifyChain(t, net) ==
    /\ t.op = "verify" /\ t.pc = "chain"
    /\ LET h == t.fileHash
           isValidOnChain == VerifyDocumentIntegrity(h, net)
           task == [t EXCEPT !.reads = @ + 1, !.onChainHash = h]
       IN Continue(t, Respond(task, IF isValidOnChain THEN "Verified"
                                                 ELSE "LedgerMismatch"))
    /\ UNCHANGED <<storeVars, now, ledgerVars, receipt>>

\* ---- getAccessLogs (GET /api/process/logs/:id)

LogsStart(id, u) ==
    /\ Free
    /\ LET d == FindOne(id, u)
           task == Loaded("logs", id, u, d)
       IN Begin(IF NotFoundOrNotSaved(d) THEN Respond(task, "NotFound")
                 ELSE [task EXCEPT !.pc = "log"])
    /\ UNCHANGED <<storeVars, now, ledgerVars, receipt>>

\* the accessor logDocumentAccess(fileHash, accessorAddress) hands to the
\* contract: auditTrailContract.logAccess(fileHash, wallet.address)
AccessorSent(accessorAddress) == WalletAddress

\* logDocumentAccess(document.originalFileHash, req.user.address)
LogsLog(t, net) ==
    /\ t.op = "logs" /\ t.pc = "log"
    /\ LET h == t.fileHash
           mined == net # "dropped" /\ LogAccessSucceeds(WalletAddress, h)
           task == [t EXCEPT !.writes = @ + 1]
       IN /\ mined => Len(events) < MaxTx
          /\ IF mined THEN LogAccess(h, AccessorSent(UserAddress(t.user)))
                      ELSE UNCHANGED ledgerVars
          /\ Continue(t, AfterLedgerWrite(task, mined /\ net = "ok", NextTxHash, "read"))
    /\ UNCHANGED <<storeVars, now, receipt>>

\* history.map(log => ({accessor, timestamp: new Date(Number(ts) * 1000)...}))
FriendlyHistory(hist) ==
    [i \in 1..Len(hist) |->
        [accessor |-> hist[i].accessor, timestamp |-> hist[i].timestamp * 1000]]

\* a history read that leaves out the newest entry
GetDocumentAccessHistory_BeforeWrite(h, net) ==
    IF net = "ok"
    THEN FriendlyHistory(SubSeq(GetAccessHistory(h), 1, Len(GetAccessHistory(h)) - 1))
    ELSE <<>>

\* getDocumentAccessHistory(fileHash): the mapped history, [] when the call throws
GetDocumentAccessHistory(h, net) ==
    IF net = "ok" THEN FriendlyHistory(GetAccessHistory(h)) ELSE <<>>

LogsRead(t, net) ==
    /\ t.op = "logs" /\ t.pc = "read"
    /\ LET h == t.fileHash
           task == [t EXCEPT !.reads = @ + 1,
                                    !.history = GetDocumentAccessHistory(h, net)]
       IN Continue(t, Respond(task, "ok"))
    /\ UNCHANGED <<storeVars, now, ledgerVars, receipt>>

\* ---- detectPii (POST /api/process/detect/:id)

DetectStart(id, u) ==
    /\ Free
    /\ LET d == FindOne(id, u)
           task == Loaded("detect", id, u, d)
       IN Begin(IF d = NoDocument THEN Respond(task, "NotFound")
                 ELSE [task EXCEPT !.pc = "post"])
    /\ UNCHANGED <<storeVars, now, ledgerVars, receipt>>

\* a save() that writes every path of the document as detectPii loaded it,
\* before any commit
SaveDetected_WholeDocument(d, e) ==
    [d EXCEPT !.detectedPii = e,
              !.isSaved = FALSE,
              !.blockchainTransactionId = Undefined,
              !.expireAt = d.createdAt + GracePeriodMs]

\* document.detectedPii = data.entities; await document.save(): save() sends
\* the modified path only
SaveDetected(d, e) == [d EXCEPT !.detectedPii = e]

\* the detection service answered (or axios threw); document.detectedPii =
\* data.entities; await document.save()
DetectSave(t, e, net) ==
    /\ t.op = "detect" /\ t.pc = "post"
    /\ LET id == t.id IN
       IF net = "ok" /\ Exists(id)
       THEN /\ docs' = [docs EXCEPT ![id] = SaveDetected(@, e)]
            /\ Continue(t, Respond(t, "ok"))
       ELSE /\ docs' = docs
            /\ Continue(t, Respond(t, IF net = "ok" THEN "SaveFailed"
                                                      ELSE "Error"))
    /\ UNCHANGED <<nextId, now, ledgerVars, receipt>>

\* ---- redactDocument (POST /api/process/redact/:id)

RedactStart(id, u) ==
    /\ Free
    /\ LET d == FindOne(id, u)
           task == Loaded("redact", id, u, d)
       IN Begin(IF d = NoDocument THEN Respond(task, "NotFound")
                 ELSE [task EXCEPT !.pc = "post"])
    /\ UNCHANGED <<storeVars, now, ledgerVars, receipt>>

\* the redaction service answered (or axios threw); res.send(redactedFileBuffer)
RedactSend(t, net) ==
    /\ t.op = "redact" /\ t.pc = "post"
    /\ Continue(t, Respond(t, IF net = "ok" THEN "ok" ELSE "Error"))
    /\ UNCHANGED <<storeVars, now, ledgerVars, receipt>>

\* ---- downloadOriginalFile (GET /api/documents/:id/original)

DownloadOriginalFile(id, u) ==
    /\ LET d == FindOne(id, u)
           task == Loaded("download", id, u, d)
       IN /\ response' = Respond(task, IF d = NoDocument THEN "NotFound" ELSE "ok")
          /\ tasks' = tasks
    /\ UNCHANGED <<storeVars, now, ledgerVars, receipt>>

\* ---- deleteDocument (DELETE /api/documents/:id)

DeleteStart(id, u) ==
    /\ Free
    /\ LET d == FindOne(id, u)
           task == Loaded("delete", id, u, d)
       IN Begin(IF d = NoDocument THEN Respond(task, "NotFound")
                 ELSE [task EXCEPT !.pc = "remove"])
    /\ UNCHANGED <<storeVars, now, ledgerVars, receipt>>

\* a delete that keeps documents already logged on the ledger
RemoveById_UnsavedOnly(id) ==
    IF docs[id] # NoDocument /\ docs[id].isSaved
    THEN docs ELSE [docs EXCEPT ![id] = NoDocument]

\* the collection after Document.findByIdAndDelete(id)
RemoveById(id) == [docs EXCEPT ![id] = NoDocument]

\* await Document.findByIdAndDelete(req.params.id); res.json(...)
DeleteRemove(t) ==
    /\ t.op = "delete" /\ t.pc = "remove"
    /\ docs' = RemoveById(t.id)
    /\ Continue(t, Respond(t, "ok"))
    /\ UNCHANGED <<nextId, now, ledgerVars, receipt>>

\* ---- the environment

\* time passes
Tick ==
    /\ now + TickMs <= MaxNow
    /\ now' = now + TickMs
    /\ response' = NoResponse /\ receipt' = NoReceipt
    /\ UNCHANGED <<storeVars, ledgerVars, tasks>>

\* a pass of the TTL monitor over the expireAt index
ExpireSweep ==
    /\ \E id \in DocIds : Expired(id)
    /\ docs' = [id \in DocIds |-> IF Expired(id) THEN NoDocument ELSE docs[id]]
    /\ response' = NoResponse
    /\ UNCHANGED <<nextId, now, ledgerVars, receipt, tasks>>

\* the stored bytes of a document are altered outside the application
Tamper(id, b) ==
    /\ Exists(id)
    /\ b # docs[id].originalFile
    /\ docs' = [docs EXCEPT ![id].originalFile = b]
    /\ response' = NoResponse
    /\ UNCHANGED <<nextId, now, ledgerVars, receipt, tasks>>

Next ==
    \/ \E u \in Users, b \in Bytes : nextId <= MaxUploads /\ UploadDocument(u, b)
    \/ \E id \in DocIds, u \in Users : SaveStart(id, u)
    \/ \E t \in InFlight, net \in WriteOutcomes : SaveLog(t, net)
    \/ \E t \in InFlight : SaveSave(t)
    \/ \E id \in DocIds, u \in Users : VerifyStart(id, u)
    \/ \E t \in InFlight, net \in ReadOutcomes : VerifyChain(t, net)
    \/ \E id \in DocIds, u \in Users : LogsStart(id, u)
    \/ \E t \in InFlight, net \in WriteOutcomes : LogsLog(t, net)
    \/ \E t \in InFlight, net \in ReadOutcomes : LogsRead(t, net)
    \/ \E id \in DocIds, u \in Users : DetectStart(id, u)
    \/ \E t \in InFlight, e \in Entities, net \in ReadOutcomes : DetectSave(t, e, net)
    \/ \E id \in DocIds, u \in Users : DeleteStart(id, u)
    \/ \E t \in InFlight : DeleteRemove(t)
    \/ Tick
    \/ ExpireSweep
    \/ \E id \in DocIds, b \in Bytes : Tamper(id, b)

Spec == Init /\ [][Next]_vars

\* the clock keeps running and the TTL monitor keeps making its passes
\* (mongod runs it once a minute)
FairSpec == Spec /\ WF_vars(Tick) /\ WF_vars(ExpireSweep)

\* moreover every awaited ledger call of a commit settles and its handler
\* resumes (promises do not stay pending for ever)
CommitFairSpec ==
    /\ FairSpec
    /\ WF_vars(\E t \in InFlight, net \in WriteOutcomes : SaveLog(t, net))
    /\ WF_vars(\E t \in InFlight : SaveSave(t))

\* ---- uploads, commits and deletions of one user, whose files may repeat

\* the user of the repeated uploads
Uploader == "u1"

ReuploadNext ==
    \/ \E b \in Bytes : UploadDocument(Uploader, b)
    \/ \E id \in DocIds : SaveStart(id, Uploader)
    \/ \E t \in InFlight, net \in WriteOutcomes : SaveLog(t, net)
    \/ \E t \in InFlight : SaveSave(t)
    \/ \E id \in DocIds : DeleteStart(id, Uploader)
    \/ \E t \in InFlight : DeleteRemove(t)
    \/ Tick
    \/ ExpireSweep

ReuploadSpec == Init /\ [][ReuploadNext]_vars

\* ---- one user's commit of a record among the requests that read it

FrameNext ==
    \/ \E b \in Bytes : nextId <= MaxUploads /\ UploadDocument(Uploader, b)
    \/ \E id \in DocIds : SaveStart(id, Uploader)
    \/ \E t \in InFlight, net \in WriteOutcomes : SaveLog(t, net)
    \/ \E t \in InFlight : SaveSave(t)
    \/ \E id \in DocIds : DetectStart(id, Uploader)
    \/ \E t \in InFlight, e \in Entities, net \in ReadOutcomes : DetectSave(t, e, net)
    \/ \E id \in DocIds : RedactStart(id, Uploader)
    \/ \E t \in InFlight, net \in ReadOutcomes : RedactSend(t, net)
    \/ \E id \in DocIds : DownloadOriginalFile(id, Uploader)
    \/ \E id \in DocIds : VerifyStart(id, Uploader)
    \/ \E t \in InFlight, net \in ReadOutcomes : VerifyChain(t, net)
    \/ \E id \in DocIds : LogsStart(id, Uploader)
    \/ \E t \in InFlight, net \in WriteOutcomes : LogsLog(t, net)
    \/ \E t \in InFlight, net \in ReadOutcomes : LogsRead(t, net)
    \/ Tick

FrameSpec == Init /\ [][FrameNext]_vars

\* ---- the contract on its own: transactions sent by any account

\* the outcome of a call made to the contract from outside the backend: the
\* revert reason of a transaction, the value returned by a view function
Outcome(fn, sender, h, reason, record, history) ==
    [fn |-> fn, sender |-> sender, fileHash |-> h,
     status |-> IF reason = "" THEN "success" ELSE "reverted",
     reason |-> reason, record |-> record, history |-> history]

\* the message of the require that reverts logNewDocument, "" when none does
LogNewDocumentRevert(sender, h) ==
    IF ~OnlyOwner(sender) THEN "AuditTrail: Caller is not the owner"
    ELSE IF ~RequireNotLogged(h) THEN "AuditTrail: Document hash already exists"
    ELSE ""

\* the message of the require that reverts logAccess, "" when none does
LogAccessRevert(sender, h) ==
    IF ~OnlyOwner(sender) THEN "AuditTrail: Caller is not the owner"
    ELSE IF ~RequireLogged(h) THEN "AuditTrail: Document does not exist"
    ELSE ""

\* a logNewDocument(h, u) transaction from sender: mined, or reverted
SendLogNewDocument(sender, h, u) ==
    /\ IF LogNewDocumentSucceeds(sender, h)
       THEN /\ Len(events) < MaxTx
            /\ LogNewDocument(h, u)
       ELSE UNCHANGED ledgerVars
    /\ receipt' = Outcome("logNewDocument", sender, h, LogNewDocumentRevert(sender, h),
                          EmptyDocumentLog, <<>>)
    /\ UNCHANGED <<storeVars, now, tasks, response>>

\* a logAccess(h, a) transaction from sender: mined, or reverted
SendLogAccess(sender, h, a) ==
    /\ IF LogAccessSucceeds(sender, h)
       THEN /\ Len(events) < MaxTx
            /\ LogAccess(h, a)
       ELSE UNCHANGED ledgerVars
    /\ receipt' = Outcome("logAccess", sender, h, LogAccessRevert(sender, h),
                          EmptyDocumentLog, <<>>)
    /\ UNCHANGED <<storeVars, now, tasks, response>>

\* a getDocumentRecord(h) call from sender
CallGetDocumentRecord(sender, h) ==
    /\ receipt' = Outcome("getDocumentRecord", sender, h, "", GetDocumentRecord(h), <<>>)
    /\ UNCHANGED <<storeVars, now, ledgerVars, tasks, response>>

\* a getAccessHistory(h) call from sender
CallGetAccessHistory(sender, h) ==
    /\ receipt' = Outcome("getAccessHistory", sender, h, "", EmptyDocumentLog,
                          GetAccessHistory(h))
    /\ UNCHANGED <<storeVars, now, ledgerVars, tasks, response>>

LedgerNext ==
    \/ \E s \in Senders, h \in Hashes, u \in Addresses : SendLogNewDocument(s, h, u)
    \/ \E s \in Senders, h \in Hashes, a \in Addresses : SendLogAccess(s, h, a)
    \/ \E s \in Senders, h \in Hashes : CallGetDocumentRecord(s, h)
    \/ \E s \in Senders, h \in Hashes : CallGetAccessHistory(s, h)
    \/ Tick

LedgerSpec == Init /\ [][LedgerNext]_vars

\* ------------------------------------------------------------ properties

\* the document is stored and committed
Committed(id) == Exists(id) /\ docs[id].isSaved

\* the request of response r was answered in the same step it arrived
\* (no ledger call was awaited)
Immediate(r) == r # NoResponse /\ r.writes = 0 /\ r.reads = 0

\* the requests in flight after a step that were not in flight before it
Started == {t \in BagToSet(tasks') : CopiesIn(t, tasks') > CopiesIn(t, tasks)}

\* the requests in flight before a step that went on or ended in it
Left == {t \in BagToSet(tasks) : CopiesIn(t, tasks') < CopiesIn(t, tasks)}

\* the requests that arrived in a step and were suspended at their first
\* ledger or service call
Arrived == IF Left = {} THEN Started ELSE {}

IsPrefix(p, q) == Len(p) <= Len(q) /\ \A i \in 1..Len(p) : p[i] = q[i]

EventCount(name, h) ==
    Cardinality({i \in 1..Len(events) : events[i].name = name /\ events[i].fileHash = h})

\* C1 (as stated): every commit call on a record of the caller either is the
\* first and succeeds, or is a later one and fails with AlreadyCommitted.
C1_FirstCommitSucceeds ==
    (response.op = "save" /\ response.res # "NotFound")
        => response.res \in {"ok", "AlreadyCommitted"}

C1_Step ==
    /\ \* a commit call that finds the record committed fails with
       \* AlreadyCommitted and changes neither the record nor the ledger
       \A id \in DocIds :
          (/\ Immediate(response') /\ response'.op = "save" /\ response'.id = id
           /\ Committed(id) /\ docs[id].user = response'.user)
          => /\ response'.res = "AlreadyCommitted"
             /\ UNCHANGED <<docs, ledgerVars>>
    /\ (response'.op = "save" /\ response'.res = "AlreadyCommitted")
          => Committed(response'.id) /\ docs' = docs
    /\ \A t \in Arrived :
          t.op = "save" => Exists(t.id) /\ ~docs[t.id].isSaved
    /\ \* the record becomes committed only by a commit call that succeeds,
       \* which stores the reference of its own ledger write
       \A id \in DocIds :
          (Exists(id) /\ ~docs[id].isSaved /\ docs'[id] # NoDocument /\ docs'[id].isSaved)
          => /\ response'.op = "save" /\ response'.res = "ok" /\ response'.id = id
             /\ docs'[id].blockchainTransactionId = response'.txId
             /\ response'.txId # Undefined
    /\ (response'.op = "save" /\ response'.res = "ok")
          => /\ Exists(response'.id) /\ ~docs[response'.id].isSaved
             /\ docs'[response'.id].isSaved
    /\ \* a commit call that ends with any error leaves the record as it was
       (response'.op = "save" /\ response'.res # "ok") => docs' = docs
    /\ \* once committed, a record is never uncommitted again and keeps its
       \* ledgerTxRef and contentHash
       \A id \in DocIds :
          (Committed(id) /\ docs'[id] # NoDocument)
          => /\ docs'[id].isSaved
             /\ docs'[id].blockchainTransactionId = docs[id].blockchainTransactionId
             /\ docs'[id].originalFileHash = docs[id].originalFileHash

\* C1 (amended): a commit call succeeds only on a record it found
\* uncommitted, and that is the only way a record becomes committed; every
\* commit call that finds the record committed fails with AlreadyCommitted;
\* a commit call that fails leaves the record as it was; a committed record
\* stays committed with the same ledgerTxRef and contentHash.
C1_CommitOnce == [][C1_Step]_vars

C1_Witness ==
    /\ response.op = "save" /\ response.res = "AlreadyCommitted"
    /\ Committed(response.id)
    /\ docs[response.id].blockchainTransactionId # Undefined

C4_Step ==
    /\ \* a ledger write that was not mined ends the request with the error
       \A t \in Left :
          (t.pc = "log" /\ events' = events)
          => /\ response' = [t EXCEPT !.pc = "done", !.res = "LedgerWriteFailed",
                                      !.writes = 1]
             /\ docs' = docs
    /\ \* a request goes on after its ledger write only with the reference of
       \* the mined transaction
       \A t \in Left :
          (t.pc = "log" /\ response' = NoResponse)
          => /\ Len(events') = Len(events) + 1
             /\ \E n \in Started : n.txId = Len(events') /\ n.id = t.id
    /\ \* the failed operation has not touched the record
       (response'.res = "LedgerWriteFailed")
          => /\ docs' = docs
             /\ response'.op \in {"save", "logs"}
             /\ response'.txId = Undefined
    /\ \* nor did it when it started
       (Arrived # {}) => docs' = docs

\* C4: a failed ledger write of commit or access-log ends the request with
\* the error and the record is as it was: no step of the failed operation
\* changes it.
C4_FailedWriteLeavesRecord == [][C4_Step]_vars

C4_Witness ==
    /\ response.op = "save" /\ response.res = "LedgerWriteFailed"
    /\ Exists(response.id)
    /\ ~docs[response.id].isSaved
    /\ docs[response.id].expireAt # Undefined
    /\ docs[response.id].blockchainTransactionId = Undefined

C5_Step ==
    /\ \A h \in Hashes :
          documentRecords[h].timestamp # 0 => documentRecords'[h] = documentRecords[h]
    /\ (/\ receipt'.fn = "logNewDocument"
        /\ documentRecords[receipt'.fileHash].timestamp # 0)
          => receipt'.status = "reverted" /\ UNCHANGED ledgerVars

\* C5: logNewDocument on a Recorded hash reverts and leaves the creation
\* record as it was; a creation record is written at most once per hash.
C5_CreationWrittenOnce ==
    /\ [][C5_Step]_vars
    /\ [](\A h \in Hashes : EventCount("DocumentCreated", h) <= 1)

C5_Witness ==
    /\ receipt.fn = "logNewDocument" /\ receipt.status = "reverted"
    /\ receipt.sender = owner
    /\ documentRecords[receipt.fileHash].timestamp # 0
    /\ documentRecords[receipt.fileHash].timestamp < BlockTimestamp

C6_Step ==
    \A h \in Hashes :
        /\ IsPrefix(accessHistory[h], accessHistory'[h])
        /\ Len(accessHistory'[h]) =
              Len(accessHistory[h]) +
                 (IF /\ receipt'.fn = "logAccess" /\ receipt'.fileHash = h
                     /\ receipt'.status = "success" /\ events' # events
                  THEN 1 ELSE 0)

\* C6: the access history of a hash grows by exactly one entry per
\* successful logAccess on that hash, and every earlier history is a prefix
\* of every later one.
C6_AppendOnly ==
    /\ [][C6_Step]_vars
    /\ [](\A h \in Hashes : Len(accessHistory[h]) = EventCount("DocumentAccessed", h))

C6_Witness ==
    \E h \in Hashes :
        /\ Len(accessHistory[h]) = 2
        /\ accessHistory[h][1].accessor # accessHistory[h][2].accessor
        /\ receipt.fn = "logAccess" /\ receipt.status = "success"

\* C7 (as stated): verify on a committed, locally intact record answers
\* Verified exactly when the ledger's stored hash equals the local hash and
\* LedgerMismatch exactly when it differs.
C7_VerdictFollowsLedger ==
    (response.op = "verify" /\ response.res \in {"Verified", "LedgerMismatch"})
        => (response.res = "Verified"
               <=> GetDocumentRecord(response.fileHash).fileHash = response.currentHash)

C8_Step ==
    /\ \A id \in DocIds :
          (/\ Immediate(response') /\ response'.op = "verify" /\ response'.id = id
           /\ Committed(id) /\ docs[id].user = response'.user
           /\ Sha256(docs[id].originalFile) # docs[id].originalFileHash)
          => /\ response'.res = "LocalTamperDetected"
             /\ UNCHANGED ledgerVars
    /\ \A t \in Arrived :
          t.op = "verify"
          => Sha256(docs[t.id].originalFile) = docs[t.id].originalFileHash
    /\ (response'.res = "LocalTamperDetected")
          => /\ Immediate(response') /\ UNCHANGED ledgerVars
             /\ response'.currentHash # response'.fileHash

\* C8: verify of a committed record whose stored bytes no longer hash to its
\* originalFileHash answers LocalTamperDetected without any ledger call.
C8_LocalTamperNoLedger == [][C8_Step]_vars

C8_Witness ==
    /\ response.op = "verify" /\ response.res = "LocalTamperDetected"
    /\ Committed(response.id)
    /\ Sha256(docs[response.id].originalFile) # docs[response.id].originalFileHash

C9_Step ==
    /\ \A id \in DocIds, u \in Users :
          (/\ Immediate(response') /\ response'.op \in {"verify", "logs"}
           /\ response'.id = id /\ response'.user = u
           /\ (~Exists(id) \/ docs[id].user # u \/ ~docs[id].isSaved))
          => /\ response'.res = "NotFound"
             /\ UNCHANGED <<docs, ledgerVars>>
    /\ \A t \in Arrived :
          t.op \in {"verify", "logs"}
          => (Committed(t.id) /\ docs[t.id].user = t.user)
    /\ (response'.op \in {"verify", "logs"} /\ response'.res = "NotFound")
          => Immediate(response') /\ UNCHANGED <<docs, ledgerVars>>

\* C9: verify and the access-log operation fail with NotFound, without any
\* ledger call and without touching the record, when the record is missing,
\* not the caller's, or not committed.
C9_NotFoundBeforeLedger == [][C9_Step]_vars

C9_Witness ==
    /\ response.op = "logs" /\ response.res = "NotFound"
    /\ Exists(response.id)
    /\ docs[response.id].user = response.user
    /\ ~docs[response.id].isSaved

\* C10 (as stated): the access record appended by an access-log call
\* carries the address of the accessor of that call, so the history the
\* call reads back holds an entry of its caller.
C10_AccessorRecorded ==
    (response.op = "logs" /\ response.res = "ok" /\ response.history # <<>>)
        => \E i \in 1..Len(response.history) :
              response.history[i].accessor = UserAddress(response.user)

C11_Step ==
    /\ \* deletion by the owner succeeds whether or not the record is committed
       \A id \in DocIds :
          (/\ response' # NoResponse /\ Left = {}
           /\ response'.op = "delete" /\ response'.id = id /\ Exists(id))
          => docs[id].user # response'.user
    /\ \A t \in Left :
          t.op = "delete"
          => /\ response' = [t EXCEPT !.pc = "done", !.res = "ok"]
             /\ docs'[t.id] = NoDocument
             /\ UNCHANGED ledgerVars
    /\ \* it is terminal: the record never comes back, and every call that
       \* arrives for its id afterwards ends at once with NotFound
       \A id \in DocIds :
          (~Exists(id) /\ id < nextId)
          => /\ docs'[id] = NoDocument
             /\ \A t \in Arrived : t.id # id
             /\ (response' # NoResponse /\ Left = {} /\ response'.id = id)
                   => response'.res = "NotFound"
    /\ \* the ledger keeps what it recorded for the hash
       \A h \in Hashes :
          /\ documentRecords[h].timestamp # 0 => documentRecords'[h] = documentRecords[h]
          /\ IsPrefix(accessHistory[h], accessHistory'[h])

\* C11: the owner's delete succeeds on a committed or uncommitted record and
\* removes it for good; every verify, commit or access-log call arriving
\* afterwards for that id fails with NotFound; delete changes nothing on the
\* ledger, which keeps the creation record and the access history.
C11_DeleteTerminal == [][C11_Step]_vars

C11_Witness ==
    /\ response.op = "verify" /\ response.res = "NotFound"
    /\ ~Exists(response.id) /\ response.id < nextId
    /\ \E h \in Hashes :
          documentRecords[h].timestamp # 0 /\ Len(accessHistory[h]) >= 1

\* the position, in the access history of its hash, of the entry written by
\* the transaction with hash txId
OwnIndex(h, txId) ==
    Cardinality({i \in 1..txId : events[i].name = "DocumentAccessed" /\ events[i].fileHash = h})

\* C12 as stated: the history returned by a successful access-log call is
\* never empty and holds the entry written by that call.
C12_HistoryHasOwnEntry ==
    (response.op = "logs" /\ response.res = "ok")
    => /\ response.history # <<>>
       /\ OwnIndex(response.fileHash, response.txId) \in 1..Len(response.history)

C12_Step ==
    \A t \in Left :
       (t.op = "logs" /\ t.pc = "read")
       => LET h == t.fileHash
              k == OwnIndex(h, t.txId)
          IN /\ t.txId \in 1..Len(events)
             /\ events[t.txId].name = "DocumentAccessed"
             /\ events[t.txId].fileHash = h
             /\ k \in 1..Len(accessHistory[h])
             /\ accessHistory[h][k].accessor = events[t.txId].who
             /\ UNCHANGED ledgerVars
             /\ response'.res = "ok"
             /\ \/ response'.history = <<>>
                \/ /\ Len(response'.history) = Len(accessHistory[h])
                   /\ \A i \in 1..Len(accessHistory[h]) :
                         /\ response'.history[i].accessor = accessHistory[h][i].accessor
                         /\ response'.history[i].timestamp = accessHistory[h][i].timestamp * 1000

\* C12 (amended): the access-log call reads the history only after its own
\* access record was confirmed, so at the read the ledger's history holds that
\* record; the history returned is the ledger's whole history, own record
\* included, when the read succeeds, and empty when the read fails.
C12_AppendBeforeRead == [][C12_Step]_vars

C12_Witness ==
    /\ response.op = "logs" /\ response.res = "ok"
    /\ Len(response.history) = 2
    /\ OwnIndex(response.fileHash, response.txId) = 2

C13_Step ==
    /\ owner' = owner
    /\ (/\ receipt' # receipt
        /\ receipt'.fn \in {"logNewDocument", "logAccess"}
        /\ receipt'.sender # WalletAddress)
       => /\ receipt'.status = "reverted"
          /\ receipt'.reason = "AuditTrail: Caller is not the owner"
          /\ documentRecords' = documentRecords
          /\ accessHistory' = accessHistory
          /\ events' = events

\* C13: a logNewDocument or logAccess transaction sent by any account other
\* than the deployer reverts with the not-the-owner error and changes no
\* creation record and no access history; the owner is the deployer for ever.
C13_OnlyOwnerWrites == [](owner = WalletAddress) /\ [][C13_Step]_vars

C13_Witness ==
    /\ receipt.fn = "logAccess" /\ receipt.sender # owner
    /\ receipt.status = "reverted"
    /\ receipt.reason = "AuditTrail: Caller is not the owner"
    /\ documentRecords[receipt.fileHash].timestamp # 0

C14_Step ==
    (/\ receipt' # receipt
     /\ receipt'.fn = "logAccess"
     /\ documentRecords[receipt'.fileHash].timestamp = 0)
    => /\ receipt'.status = "reverted"
       /\ accessHistory' = accessHistory
       /\ events' = events

\* C14: a logAccess transaction for a hash without creation record reverts and
\* appends nothing, so in every state a hash whose access history is not
\* empty has a creation record.
C14_AccessNeedsRecord ==
    /\ [](\A h \in Hashes : accessHistory[h] # <<>> => documentRecords[h].timestamp # 0)
    /\ [][C14_Step]_vars

C14_Witness ==
    /\ receipt.fn = "logAccess" /\ receipt.sender = owner
    /\ receipt.status = "reverted"
    /\ receipt.reason = "AuditTrail: Document does not exist"
    /\ documentRecords[receipt.fileHash].timestamp = 0
    /\ \E h \in Hashes : accessHistory[h] # <<>>

\* the DocumentAccessed events of hash h, in the order they were emitted
AccessEvents(h) ==
    SelectSeq(events, LAMBDA e : e.name = "DocumentAccessed" /\ e.fileHash = h)

C15_Returned ==
    LET h == receipt.fileHash IN
    /\ receipt.fn = "getDocumentRecord"
       => /\ receipt.status = "success"
          /\ IF EventCount("DocumentCreated", h) = 0
             THEN receipt.record = [fileHash |-> "", user |-> ZeroAddress, timestamp |-> 0]
             ELSE /\ receipt.record.fileHash = h
                  /\ receipt.record.timestamp # 0
                  /\ \E i \in 1..Len(events) :
                        /\ events[i].name = "DocumentCreated" /\ events[i].fileHash = h
                        /\ events[i].who = receipt.record.user
    /\ receipt.fn = "getAccessHistory"
       => /\ receipt.status = "success"
          /\ Len(receipt.history) = Len(AccessEvents(h))
          /\ \A k \in 1..Len(receipt.history) :
                /\ receipt.history[k].accessor = AccessEvents(h)[k].who
                /\ receipt.history[k].timestamp # 0

C15_Step ==
    (receipt' # receipt /\ receipt'.fn \in {"getDocumentRecord", "getAccessHistory"})
    => UNCHANGED ledgerVars

\* C15: getDocumentRecord and getAccessHistory succeed for every caller and
\* every hash and leave the ledger as it is; for a hash with a creation record
\* they return the record as created and one entry per logged access in order,
\* for a hash without one the zero record and the empty history.
C15_ReadsUnrestricted == []C15_Returned /\ [][C15_Step]_vars

C15_Witness ==
    /\ receipt.fn = "getAccessHistory" /\ receipt.sender # owner
    /\ receipt.status = "success"
    /\ Len(receipt.history) = 2
    /\ \E h \in Hashes : documentRecords[h].timestamp = 0

\* C16: the onChainHash (ledgerHash) that verify returns with a ledger verdict
\* is the hash held by the ledger's creation record, hence differs from the
\* returned currentHash (localHash) under the mismatch verdict.
C16_ReturnsLedgerHash ==
    (response.op = "verify" /\ response.res \in {"Verified", "LedgerMismatch"})
    => /\ response.onChainHash = documentRecords[response.fileHash].fileHash
       /\ response.res = "LedgerMismatch" => response.onChainHash # response.currentHash

C17_Step ==
    (/\ response' # NoResponse
     /\ response'.op \in {"save", "verify", "logs"}
     /\ response'.res \in {"NotFound", "AlreadyCommitted"})
    => /\ response'.writes = 0 /\ response'.reads = 0
       /\ Left = {}
       /\ tasks' = tasks
       /\ UNCHANGED ledgerVars

\* C17: a commit, verify or access-log request that ends with NotFound or
\* AlreadyCommitted ends in the step it arrived in: it made no ledger call,
\* was never suspended at one, and the ledger is as it was.
C17_ValidationBeforeLedger == [][C17_Step]_vars

C17_Witness ==
    /\ response.op = "save" /\ response.res = "AlreadyCommitted"
    /\ response.writes = 0 /\ response.reads = 0
    /\ EventCount("DocumentCreated", response.fileHash) = 1
    /\ Len(events) = 1

\* the contract would revert the write request t is suspended at
WouldReject(t) ==
    IF t.op = "save" THEN documentRecords[t.fileHash].timestamp # 0
                     ELSE documentRecords[t.fileHash].timestamp = 0

C18_Step ==
    \A t \in Left :
       /\ \* a write that never reached a contract willing to take it is
          \* reported as LedgerUnavailable, a rejected one as LedgerRejected
          (t.pc = "log" /\ events' = events)
          => IF WouldReject(t)
             THEN response'.res \in {"LedgerRejected", "LedgerUnavailable"}
             ELSE response'.res = "LedgerUnavailable"
       /\ \* verify answers LedgerMismatch only for a ledger that disagrees
          (t.pc = "chain" /\ documentRecords[t.fileHash].fileHash = t.fileHash)
          => response'.res \in {"Verified", "LedgerUnavailable"}

\* C18: the ledger client reports a network failure as LedgerUnavailable and
\* a rejection by the contract as a different error, for writes and reads;
\* a verify whose ledger read failed never answers LedgerMismatch.
C18_FailureTranslation == [][C18_Step]_vars

C19_Step ==
    \A t \in InFlight :
       (/\ t.op = "save" /\ t.pc \in {"log", "save"}
        /\ Exists(t.id) /\ docs'[t.id] = NoDocument)
       => tasks' # tasks

\* C19: while a commit is between its read of the record and its write of
\* committed, the record is not removed by the expiry sweep (a step of the
\* sweep leaves the requests in flight as they are; only a delete request
\* may remove the record), so a confirmed commit finds its record.
C19_NoSweepDuringCommit == [][C19_Step]_vars

\* C20: in every state a stored record carries a blockchainTransactionId
\* (ledgerTxRef) iff it is committed, and a committed record's reference is
\* the confirmed creation transaction of its originalFileHash, whose creation
\* record is on the ledger.
C20_CommittedIsOnLedger ==
    \A id \in DocIds :
       Exists(id)
       => LET d == docs[id] IN
          /\ d.blockchainTransactionId # Undefined <=> d.isSaved
          /\ d.isSaved
             => /\ documentRecords[d.originalFileHash].timestamp # 0
                /\ documentRecords[d.originalFileHash].fileHash = d.originalFileHash
                /\ d.blockchainTransactionId \in 1..Len(events)
                /\ events[d.blockchainTransactionId].name = "DocumentCreated"
                /\ events[d.blockchainTransactionId].fileHash = d.originalFileHash

C20_Witness ==
    \E id \in DocIds :
       /\ Exists(id) /\ docs[id].isSaved
       /\ docs[id].blockchainTransactionId = 1
       /\ documentRecords[docs[id].originalFileHash].timestamp # 0
       /\ response.op = "save" /\ response.res = "ok" /\ response.id = id

\* C21: a verify never answers Verified or LedgerMismatch for a record that
\* is no longer stored when the answer is sent; a verify whose record was
\* deleted while it awaited the ledger answers NotFound.
C21_VerifyOnlyStored ==
    (response.op = "verify" /\ response.res \in {"Verified", "LedgerMismatch"})
    => Exists(response.id)

C22_Step ==
    \A t \in Left :
       (/\ t.op = "save" /\ t.pc = "log"
        /\ Len(events') > Len(events)
        /\ documentRecords'[t.fileHash].timestamp # 0)
       => response' = NoResponse \/ response'.res = "ok"

\* C22: a commit whose creation write was mined never reports failure while
\* leaving the record uncommitted: when the confirmation is unknown it reads
\* the ledger for the hash and goes on to commit the record.
C22_ReconcilesUnknownWrite == [][C22_Step]_vars

\* the hash of request t is on the ledger although its record is stored
\* uncommitted and no other commit of the record is about to save it
RecordedButUncommitted(t) ==
    /\ documentRecords[t.fileHash].timestamp # 0
    /\ Exists(t.id) /\ ~docs[t.id].isSaved
    /\ \A o \in InFlight : ~(o.op = "save" /\ o.pc = "save" /\ o.id = t.id)

C23_Step ==
    \A t \in Left :
       (t.op = "save" /\ t.pc = "log" /\ RecordedButUncommitted(t))
       => /\ response' = NoResponse
          /\ \E n \in Started : n.op = "save" /\ n.pc = "save" /\ n.id = t.id

\* C23: a commit retried on an uncommitted record whose hash the ledger has
\* already recorded takes the duplicate rejection as proof of the earlier
\* write and goes on to save the record as committed instead of failing.
C23_DuplicateMeansSuccess == [][C23_Step]_vars

\* a step of the expiry sweep: a stored record goes while no request moves
SweepStep == tasks' = tasks /\ \E id \in DocIds : Exists(id) /\ docs'[id] = NoDocument

C24_Step ==
    /\ \* create
       nextId' # nextId
       => /\ nextId' = nextId + 1
          /\ ~Exists(nextId)
          /\ docs'[nextId] # NoDocument
          /\ docs'[nextId].isSaved = FALSE
          /\ docs'[nextId].createdAt = now
          /\ docs'[nextId].expireAt = now + 5 * 60 * 1000
    /\ \* sweep
       SweepStep
       => \A id \in DocIds :
             Exists(id)
             => (docs'[id] = NoDocument
                   <=> (~docs[id].isSaved /\ docs[id].expireAt <= now))

\* an uncommitted record whose expiry lies within the modelled time
DueWithinHorizon(id) ==
    Exists(id) /\ ~docs[id].isSaved /\ docs[id].expireAt <= MaxNow

\* C24: a record is created uncommitted with expireAt = creation time plus
\* five minutes; a pass of the sweep deletes exactly the stored records that
\* are uncommitted with expireAt <= now; and, the clock and the sweep being
\* fair, an uncommitted record is eventually deleted unless it is committed.
C24_GraceThenSwept ==
    /\ [][C24_Step]_vars
    /\ \A id \in DocIds :
          DueWithinHorizon(id) ~> (~Exists(id) \/ docs[id].isSaved)

C24_Witness ==
    /\ now = 2 * 5 * 60 * 1000
    /\ nextId = 2 /\ ~Exists(1)
    /\ events = <<>> /\ tasks = EmptyBag

C25_Step ==
    \A t \in Left :
       (/\ t.op = "logs" /\ t.pc = "read"
        /\ Len(response'.history) # Len(accessHistory[t.fileHash]))
       => /\ response'.history = <<>>
          /\ response'.res = "okWithWarning"

\* C25: when the history read of an access-log request fails, the request
\* still completes, with an empty history and with a warning that tells the
\* caller of the failed read (its answer is not that of a read that worked).
C25_ReadFailureWarned == [][C25_Step]_vars

C26_Step ==
    /\ \A id \in DocIds :
          (Exists(id) /\ docs'[id] # NoDocument)
          => IsPrefix(docs[id].accessLogs, docs'[id].accessLogs)
    /\ \A t \in Left :
          (/\ t.op = "logs" /\ response'.res = "ok"
           /\ Exists(t.id) /\ docs'[t.id] # NoDocument)
          => /\ Len(docs'[t.id].accessLogs) = Len(docs[t.id].accessLogs) + 1
             /\ docs'[t.id].accessLogs[Len(docs'[t.id].accessLogs)].transactionId = t.txId

\* C26: the accessLogs of a record only grow at the end, and every
\* successful access-log request on the record appends the reference of its
\* ledger write, so after k such requests the record holds the k references
\* in the order the requests completed.
C26_AccessRefsAppended == [][C26_Step]_vars

\* two commit requests on record id are awaiting their ledger write
TwoCommitsInFlight(id) ==
    /\ Exists(id) /\ ~docs[id].isSaved
    /\ BagCardinality([t \in {x \in InFlight : x.op = "save" /\ x.pc = "log" /\ x.id = id}
                          |-> CopiesIn(t, tasks)]) >= 2

\* C27 as stated: whenever two commits of an uncommitted record are in flight
\* together, exactly one creation write succeeds and the record ends
\* committed with the reference of that write.
C27_ExactlyOneWins ==
    \A id \in DocIds :
       [](TwoCommitsInFlight(id)
            => <>(/\ Committed(id)
                  /\ EventCount("DocumentCreated", docs[id].originalFileHash) = 1
                  /\ docs[id].blockchainTransactionId \in 1..Len(events)))

C27_Step ==
    /\ \A h \in Hashes : Cardinality({i \in 1..Len(events') :
                            events'[i].name = "DocumentCreated" /\ events'[i].fileHash = h}) <= 1
    /\ \A t \in Left :
          (t.op = "save" /\ response' # NoResponse)
          => IF response'.res = "ok"
             THEN /\ docs'[t.id] # NoDocument
                  /\ docs'[t.id].isSaved
                  /\ docs'[t.id].expireAt = Undefined
                  /\ docs'[t.id].blockchainTransactionId = t.txId
                  /\ t.txId \in 1..Len(events)
                  /\ events[t.txId].name = "DocumentCreated"
                  /\ events[t.txId].fileHash = docs'[t.id].originalFileHash
             ELSE docs' = docs
    /\ \A id \in DocIds :
          (Committed(id) /\ docs'[id] # NoDocument)
          => /\ docs'[id].isSaved
             /\ docs'[id].blockchainTransactionId = docs[id].blockchainTransactionId
             /\ docs'[id].expireAt = docs[id].expireAt

\* C27 (amended): under any interleaving of commits on one record at most one
\* creation write is mined for its hash; a commit that succeeds leaves the
\* record committed, without expireAt, with the reference of that one write;
\* a commit that fails changes nothing of the record; and a committed
\* record keeps isSaved, its reference and its absent expireAt.
C27_AtMostOneWins == [][C27_Step]_vars

C27_Witness ==
    /\ response.op = "save" /\ response.res = "LedgerWriteFailed"
    /\ response.writes = 1
    /\ Committed(response.id)
    /\ docs[response.id].blockchainTransactionId = 1
    /\ EventCount("DocumentCreated", response.fileHash) = 1

\* the stored committed records of hash h
CommittedWith(h) == {id \in DocIds : Committed(id) /\ docs[id].originalFileHash = h}

\* the commits of hash h whose creation write was confirmed and that are
\* about to save their record
SavingWith(h) ==
    BagCardinality([t \in {x \in InFlight : x.op = "save" /\ x.pc = "save" /\ x.fileHash = h}
                       |-> CopiesIn(t, tasks)])

C28_OnePerHash ==
    \A h \in Hashes :
       /\ Cardinality(CommittedWith(h)) + SavingWith(h) <= EventCount("DocumentCreated", h)
       /\ EventCount("DocumentCreated", h) <= 1

C28_Step ==
    /\ \* a record becomes committed only with the one creation write of its hash
       \A id \in DocIds :
          (Exists(id) /\ ~docs[id].isSaved /\ docs'[id] # NoDocument /\ docs'[id].isSaved)
          => /\ CommittedWith(docs[id].originalFileHash) = {}
             /\ events[docs'[id].blockchainTransactionId].fileHash = docs[id].originalFileHash
    /\ \* the commit of a record whose hash is recorded already fails
       \A t \in Left :
          (t.op = "save" /\ t.pc = "log" /\ documentRecords[t.fileHash].timestamp # 0)
          => /\ response'.res = "LedgerWriteFailed"
             /\ docs' = docs
             /\ UNCHANGED ledgerVars
             /\ (Exists(t.id) /\ t.id \notin CommittedWith(t.fileHash))
                => (~docs'[t.id].isSaved /\ docs'[t.id].expireAt # Undefined)

\* C28: for every hash at most one record is ever committed: a record is
\* committed only through the single creation write the ledger accepts for
\* its hash, and the commit of any other record with the same bytes, a
\* re-upload after deletion included, fails at the ledger and leaves that
\* record uncommitted with its expireAt.
C28_OneCommitPerHash == []C28_OnePerHash /\ [][C28_Step]_vars

C28_Witness ==
    /\ response.op = "save" /\ response.res = "LedgerWriteFailed" /\ response.id = 2
    /\ ~Exists(1)
    /\ Exists(2) /\ ~docs[2].isSaved /\ docs[2].expireAt # Undefined
    /\ docs[2].originalFileHash = response.fileHash
    /\ EventCount("DocumentCreated", response.fileHash) = 1
    /\ EventCount("DocumentCreated", Sha256("b2")) = 0

\* the operations that only read a record, or write its detection result
Readers == {"detect", "redact", "download", "verify", "logs"}

\* the step is one of a reading operation
ReaderStep ==
    \/ response' # NoResponse /\ response'.op \in Readers
    \/ \E t \in Left \cup Started : t.op \in Readers

C29_Step ==
    ReaderStep
    => \A id \in DocIds :
          Exists(id)
          => /\ docs'[id] # NoDocument
             /\ docs'[id].originalFileHash = docs[id].originalFileHash
             /\ docs'[id].originalFile = docs[id].originalFile
             /\ docs'[id].isSaved = docs[id].isSaved
             /\ docs'[id].expireAt = docs[id].expireAt
             /\ docs'[id].blockchainTransactionId = docs[id].blockchainTransactionId

C30_KeyedByHash ==
    /\ \A h \in Hashes :
          \/ documentRecords[h] = [fileHash |-> "", user |-> ZeroAddress, timestamp |-> 0]
          \/ documentRecords[h].fileHash = h /\ documentRecords[h].timestamp # 0
    /\ \A id \in DocIds :
          Committed(id)
          => documentRecords[docs[id].originalFileHash].fileHash = docs[id].originalFileHash

C30_Step ==
    \A t \in Left :
       (t.op = "verify" /\ t.pc = "chain")
       => /\ documentRecords[t.fileHash].fileHash = t.fileHash
          /\ response'.res \in {"Verified", "LedgerMismatch"}
          /\ response'.currentHash = t.fileHash

\* C30: in every state each creation record is the empty record or holds the
\* hash it is stored under, so the record read for the hash of a committed
\* document holds that hash: a verify that passed the local comparison finds,
\* whenever its ledger read succeeds, the hash it asked for (Verified).
C30_RecordHoldsItsKey == []C30_KeyedByHash /\ [][C30_Step]_vars

C30_Witness ==
    /\ response.op = "verify" /\ response.res = "Verified"
    /\ Committed(response.id)
    /\ Sha256(docs[response.id].originalFile) = docs[response.id].originalFileHash
    /\ documentRecords[response.fileHash].fileHash = response.fileHash
    /\ documentRecords[response.fileHash].timestamp < BlockTimestamp

====
